---- MODULE Spec2Model ----
(***************************************************************************)
(* Model of four primitives of go-zero: the single-flight group            *)
(* (core/syncx/sharedcalls.go), the rolling window                         *)
(* (core/collection/rollingwindow.go), the google breaker built on it and  *)
(* the consistent hash ring (core/hash/consistenthash.go).                 *)
(* Each primitive has its own specification over the shared variable list; *)
(* the variables of the other primitives stay at their initial values.     *)
(***************************************************************************)
EXTENDS Integers, Sequences, FiniteSets, TLC

(***************************************************************************)
(* Bounds of the model.                                                    *)
(***************************************************************************)
\* goroutines that may be inside Do/DoEx at the same time
NProcs == 3
\* call records created in one run
MaxRecs == 2

\* rolling window: ticks of the clock per bucket interval
IntervalTicks == 2
\* rolling window: largest number of buckets
MaxSize == 3
\* rolling window: Add calls in one run
MaxAdds == 3

\* breaker: allow/doReq calls admitted in one run
MaxCalls == 7
\* breaker: promises not yet resolved plus doReq calls whose req is running
MaxPending == 1
\* breaker: ticks the clock is followed for after construction and after an idle time
MaxTicks == 1
\* breaker: the values r.Float64() is drawn from are 0/ProbaGrain .. (ProbaGrain-1)/ProbaGrain
ProbaGrain == 4

\* hash ring: calls made on the ring in one run
MaxOps == 3
\* hash ring: AddWithReplicas calls that may be between their two locked sections
MaxAdding == 2

\* ---- constants of the hash package ----
TopWeight == 100
minReplicas == 100

\* ---- constants of the breaker package; a tick of the clock is 125 ms ----
\* window = time.Second * 10
window == 80
buckets == 40
\* k = 1.5 = kNum / kDen
kNum == 3
kDen == 2
protection == 5

Keys == {"a", "b"}
\* the values added to a rolling window
Vals == {1, 2}
\* ticks by which the second clock read of one call may be later than the first
Skews == {0, 1}
Recs == 1..MaxRecs
Nil == 0
NoKey == ""

VARIABLES
    \* ---- sharedGroup (sharedcalls.go) ----
    calls,      \* g.calls: key -> record id, Nil when the key is absent
    nrec,       \* number of records created by new(call)
    rkey,       \* the key every record was created for
    wg,         \* call.wg counter of every record
    cval,       \* call.val of every record (Nil until fn stores a value)
    cerr,       \* call.err of every record (Nil until fn stores an error)
    stage,      \* where the goroutine that created the record is in Do/DoEx
    panicked,   \* TRUE when fn of the record panicked
    nwait,      \* number of goroutines in c.wg.Wait() on the record
    execs,      \* history: number of times fn ran for every record
    signals,    \* history: number of wg.Done() calls on every record
    nfresh,     \* history: number of callers of the record that got fresh = true
    got,        \* history: the outcomes the callers of every record received
    late,       \* history: records that a caller attached to after their signal
    stray       \* history: records that a caller attached to while no call was in flight

VARIABLES
    \* ---- timex clock and RollingWindow (rollingwindow.go) ----
    now,            \* the reading timex.Now() gives at this moment
    size,           \* rw.size
    interval,       \* rw.interval
    ignoreCurrent,  \* rw.ignoreCurrent
    offset,         \* rw.offset
    lastTime,       \* rw.lastTime
    win,            \* rw.win.buckets: index -> [Sum, Count]
    reduced,        \* what the Reduce call that just returned passed to fn
    nadds,          \* number of Add calls made
    epoch,          \* history: lastTime set by NewRollingWindow
    born,           \* history: for every bucket, lastTime when its samples were added
    addedSum,       \* history: sum of all values added
    lastAddAt,      \* history: clock when the last Add (or the constructor) returned
    lastAddV,       \* history: value of the last Add
    idleAdd         \* history: the last Add came size intervals or more after the previous one

rwvars == <<now, size, interval, ignoreCurrent, offset, lastTime, win, reduced,
            nadds, epoch, born, addedSum, lastAddAt, lastAddV, idleAdd>>

sfvars == <<calls, nrec, rkey, wg, cval, cerr, stage, panicked, nwait,
            execs, signals, nfresh, got, late, stray>>

VARIABLES
    \* ---- googleBreaker (its stat is the RollingWindow above) ----
    fresh,      \* promises returned by allow on which neither Accept nor Reject was called
    inreq,      \* doReq calls that were admitted and whose req is running
    verdict     \* what the allow/doReq/req that just returned decided

brvars == <<fresh, inreq, verdict>>

VARIABLES
    \* ---- googlePromise values in the hands of their holders ----
    spent       \* promises on which Accept or Reject was called at least once

prvars == <<spent>>

VARIABLES
    \* ---- ConsistentHash ----
    hashFunc,   \* h.hashFunc: the name of the function passed to the constructor
    replicas,   \* h.replicas
    keys,       \* h.keys
    ring,       \* h.ring: hash -> sequence of nodes; its domain is the map's key set
    nodes,      \* h.nodes: the set of node representations
    adding,     \* AddWithReplicas calls between their Remove and their locked section
    hops,       \* number of calls made on the ring
    hlast       \* the call that just returned, with its result

chvars == <<hashFunc, replicas, keys, ring, nodes, adding, hops, hlast>>

vars == <<sfvars, rwvars, brvars, prvars, chvars>>

(***************************************************************************)
(* sharedGroup.  Goroutines are anonymous: the state holds, for every      *)
(* record, the position of the goroutine that created it and the number of *)
(* goroutines waiting on it.                                               *)
(***************************************************************************)

\* NewSharedCalls: an empty index; no goroutine is inside Do/DoEx.
InitSF ==
    /\ calls = [k \in Keys |-> Nil]
    /\ nrec = 0
    /\ rkey = [r \in Recs |-> NoKey]
    /\ wg = [r \in Recs |-> 0]
    /\ cval = [r \in Recs |-> Nil]
    /\ cerr = [r \in Recs |-> Nil]
    /\ stage = [r \in Recs |-> "none"]
    /\ panicked = [r \in Recs |-> FALSE]
    /\ nwait = [r \in Recs |-> 0]
    /\ execs = [r \in Recs |-> 0]
    /\ signals = [r \in Recs |-> 0]
    /\ nfresh = [r \in Recs |-> 0]
    /\ got = [r \in Recs |-> {}]
    /\ late = {}
    /\ stray = {}

\* The goroutine that created record r is still inside Do/DoEx.
Running(r) == stage[r] \in {"makeCall", "fn", "defer", "done"}

\* Number of goroutines inside Do/DoEx.
Active ==
    Cardinality({r \in Recs : Running(r)})
    + Cardinality({<<r, i>> \in Recs \X (1..NProcs) : i <= nwait[r]})

\* A call for key k is in flight: the goroutine that created the record of k
\* has not yet deleted the key in makeCall's defer.
InFlight(k) ==
    \E r \in Recs : rkey[r] = k /\ stage[r] \in {"makeCall", "fn", "defer"}

\* Mutant of createCall: the index is not consulted, every caller creates a record.
createCallNoLookup(k) ==
    /\ nrec < MaxRecs
    /\ nrec' = nrec + 1
    /\ rkey' = [rkey EXCEPT ![nrec + 1] = k]
    /\ wg' = [wg EXCEPT ![nrec + 1] = @ + 1]
    /\ calls' = [calls EXCEPT ![k] = nrec + 1]
    /\ stage' = [stage EXCEPT ![nrec + 1] = "makeCall"]
    /\ UNCHANGED <<nwait, late, stray>>

\* createCall, the section under g.lock: the caller waits on the record found
\* under k (done = true), or a record with wg = 1 is stored under k (done = false).
createCall(k) ==
    IF calls[k] # Nil
    THEN /\ nwait' = [nwait EXCEPT ![calls[k]] = @ + 1]
         /\ late' = IF wg[calls[k]] = 0 THEN late \cup {calls[k]} ELSE late
         /\ stray' = IF InFlight(k) THEN stray ELSE stray \cup {calls[k]}
         /\ UNCHANGED <<nrec, rkey, wg, calls, stage>>
    ELSE /\ nrec < MaxRecs
         /\ nrec' = nrec + 1
         /\ rkey' = [rkey EXCEPT ![nrec + 1] = k]
         /\ wg' = [wg EXCEPT ![nrec + 1] = @ + 1]
         /\ calls' = [calls EXCEPT ![k] = nrec + 1]
         /\ stage' = [stage EXCEPT ![nrec + 1] = "makeCall"]
         /\ UNCHANGED <<nwait, late, stray>>

\* DoEx up to the return of createCall's locked section: the caller goes on
\* to the wait or to makeCall.
DoEx(k) ==
    /\ Active < NProcs
    /\ createCall(k)
    /\ UNCHANGED <<cval, cerr, panicked, execs, signals, nfresh, got>>

\* Do has the statements of DoEx and returns its result without fresh.
Do(k) == DoEx(k)

\* What a caller of record r receives.  ran: the caller went through makeCall;
\* kind: the call returned, or fn's panic reached the caller; fresh: the
\* boolean DoEx returns (Do drops it).
Outcome(r, ran, kind) ==
    [ran |-> ran, kind |-> kind,
     val |-> IF kind = "return" THEN cval[r] ELSE Nil,
     err |-> IF kind = "return" THEN cerr[r] ELSE Nil,
     fresh |-> ran /\ kind = "return"]

\* createCall's c.wg.Wait() returns once the counter is zero; Do returns
\* (c.val, c.err), DoEx returns (c.val, false, c.err).
Wait(r) ==
    /\ nwait[r] > 0
    /\ wg[r] = 0
    /\ nwait' = [nwait EXCEPT ![r] = @ - 1]
    /\ got' = [got EXCEPT ![r] = @ \cup {Outcome(r, FALSE, "return")}]
    /\ UNCHANGED <<calls, nrec, rkey, wg, cval, cerr, stage, panicked,
                   execs, signals, nfresh, late, stray>>

\* makeCall calls fn.
CallFn(r) ==
    /\ stage[r] = "makeCall"
    /\ stage' = [stage EXCEPT ![r] = "fn"]
    /\ execs' = [execs EXCEPT ![r] = @ + 1]
    /\ UNCHANGED <<calls, nrec, rkey, wg, cval, cerr, panicked, nwait,
                   signals, nfresh, got, late, stray>>

\* fn returns a value and an error; makeCall stores both in the record.  The
\* pair is named after the record: it differs from the pair of every other
\* execution and from the zero value Nil.
FnReturn(r) ==
    /\ stage[r] = "fn"
    /\ cval' = [cval EXCEPT ![r] = r]
    /\ cerr' = [cerr EXCEPT ![r] = r]
    /\ stage' = [stage EXCEPT ![r] = "defer"]
    /\ UNCHANGED <<calls, nrec, rkey, wg, panicked, nwait,
                   execs, signals, nfresh, got, late, stray>>

\* Mutant of FnPanic: the cleanup is not deferred, the panic leaves makeCall at once.
FnPanicNoDefer(r) ==
    /\ stage[r] = "fn"
    /\ panicked' = [panicked EXCEPT ![r] = TRUE]
    /\ stage' = [stage EXCEPT ![r] = "gone"]
    /\ got' = [got EXCEPT ![r] = @ \cup {Outcome(r, TRUE, "panic")}]
    /\ UNCHANGED <<calls, nrec, rkey, wg, cval, cerr, nwait,
                   execs, signals, nfresh, late, stray>>

\* fn panics: the assignment to c.val, c.err never happens and the deferred
\* function of makeCall runs while the panic unwinds.
FnPanic(r) ==
    /\ stage[r] = "fn"
    /\ panicked' = [panicked EXCEPT ![r] = TRUE]
    /\ stage' = [stage EXCEPT ![r] = "defer"]
    /\ UNCHANGED <<calls, nrec, rkey, wg, cval, cerr, nwait,
                   execs, signals, nfresh, got, late, stray>>

\* delete(g.calls, key) between g.lock.Lock() and g.lock.Unlock().
DeleteKey(r) == calls' = [calls EXCEPT ![rkey[r]] = Nil]

\* c.wg.Done().
WgDone(r) ==
    /\ wg' = [wg EXCEPT ![r] = @ - 1]
    /\ signals' = [signals EXCEPT ![r] = @ + 1]

\* The deferred function is over: the panic goes on to the caller, or Do
\* returns (c.val, c.err) and DoEx returns (c.val, true, c.err).
Finish(r) ==
    LET o == Outcome(r, TRUE, IF panicked[r] THEN "panic" ELSE "return")
    IN  /\ got' = [got EXCEPT ![r] = @ \cup {o}]
        /\ nfresh' = [nfresh EXCEPT ![r] = IF o.fresh THEN @ + 1 ELSE @]
        /\ stage' = [stage EXCEPT ![r] = "gone"]

\* Mutant of makeCallDefer: wg.Done() first, the key is deleted afterwards.
makeCallDeferReversed(r) ==
    \/ /\ stage[r] = "defer"
       /\ WgDone(r)
       /\ stage' = [stage EXCEPT ![r] = "done"]
       /\ UNCHANGED <<calls, nrec, rkey, cval, cerr, panicked, nwait,
                      execs, nfresh, got, late, stray>>
    \/ /\ stage[r] = "done"
       /\ DeleteKey(r)
       /\ Finish(r)
       /\ UNCHANGED <<nrec, rkey, wg, cval, cerr, panicked, nwait,
                      execs, signals, late, stray>>

\* Mutant of makeCallDefer: the key is never deleted from the index.
makeCallDeferKeepKey(r) ==
    \/ /\ stage[r] = "defer"
       /\ stage' = [stage EXCEPT ![r] = "done"]
       /\ UNCHANGED <<calls, nrec, rkey, wg, cval, cerr, panicked, nwait,
                      execs, signals, nfresh, got, late, stray>>
    \/ /\ stage[r] = "done"
       /\ WgDone(r)
       /\ Finish(r)
       /\ UNCHANGED <<calls, nrec, rkey, cval, cerr, panicked, nwait,
                      execs, late, stray>>

\* The deferred function of makeCall, two steps: the key is deleted under
\* g.lock; then, the lock released, c.wg.Done() and the return to the caller.
makeCallDefer(r) ==
    \/ /\ stage[r] = "defer"
       /\ DeleteKey(r)
       /\ stage' = [stage EXCEPT ![r] = "done"]
       /\ UNCHANGED <<nrec, rkey, wg, cval, cerr, panicked, nwait,
                      execs, signals, nfresh, got, late, stray>>
    \/ /\ stage[r] = "done"
       /\ WgDone(r)
       /\ Finish(r)
       /\ UNCHANGED <<calls, nrec, rkey, cval, cerr, panicked, nwait,
                      execs, late, stray>>

(***************************************************************************)
(* ConsistentHash.  A byte string of decimal digits is the number it        *)
(* spells; Remove, Get and the locked section of AddWithReplicas hold       *)
(* h.lock, so each is one step; AddWithReplicas is two steps, its Remove    *)
(* and its locked section.                                                  *)
(***************************************************************************)

\* The nodes passed to the ring: strings and integers.
Node(kind, text) == [kind |-> kind, text |-> text]

NodeSet == {Node("str", 1), Node("str", 11), Node("int", 1)}

\* The keys looked up with Get.
GetKeys == {5, 110}

\* The replica counts passed to AddWithReplicas.
ReplicaArgs == {0, minReplicas + 1}

\* The weights passed to AddWithWeight.
WeightArgs == {2}

\* The functions passed to NewCustomConsistentHash: one without collisions on
\* the strings used here, one with many.
HashFuncs == {"spread", "fold"}

HashMul == 7919
HashPrime == 10007
HashFold == 7

\* mapping.Repr: a string is itself, an integer its decimal form.
repr(node) == node.text

\* len(strconv.Itoa(i)) for i >= 0
Digits(i) == IF i < 10 THEN 1 ELSE IF i < 100 THEN 2 ELSE IF i < 1000 THEN 3 ELSE 4

Pow10(n) == IF n = 1 THEN 10 ELSE IF n = 2 THEN 100 ELSE IF n = 3 THEN 1000 ELSE 10000

\* a + strconv.Itoa(i) for a string a of digits
Concat(a, i) == a * Pow10(Digits(i)) + i

\* innerRepr: fmt.Sprintf("%d:%v", prime, v).  The prefix "16777619:" makes it
\* differ from every string of digits: it is written as a negative number.
innerRepr(v) == -(v + 1)

\* h.hashFunc(data)
hash(data) ==
    LET x == IF data < 0 THEN -data ELSE data
    IN  IF hashFunc = "spread" THEN (x * HashMul + (IF data < 0 THEN 1 ELSE 0)) % HashPrime
        ELSE (x + (IF data < 0 THEN 1 ELSE 0)) % HashFold

\* No call has returned yet.
NoCall == [op |-> "none", node |-> Node("str", 0), arg |-> 0, ok |-> FALSE]

\* NewCustomConsistentHash(r, fn)
NewCustomConsistentHash(r, fn) ==
    /\ hashFunc = fn
    /\ replicas = (IF r < minReplicas THEN minReplicas ELSE r)
    /\ keys = <<>>
    /\ ring = [x \in {} |-> <<>>]
    /\ nodes = {}
    /\ adding = <<>>
    /\ hops = 0
    /\ hlast = NoCall

\* The ring of a specification that does not use it.
InitCHIdle == NewCustomConsistentHash(minReplicas, "spread")

RECURSIVE Search(_, _, _, _)
\* sort.Search(len(ks), func(i) { return ks[i] >= x }): the loop of the binary
\* search between i and j.
Search(ks, x, i, j) ==
    IF i < j
    THEN LET m == (i + j) \div 2
         IN  IF ~(ks[m + 1] >= x) THEN Search(ks, x, m + 1, j) ELSE Search(ks, x, i, m)
    ELSE i

\* removeRingNode on the map rg
removeRingNode(rg, x, nodeRepr) ==
    IF x \in DOMAIN rg
    THEN LET newNodes == SelectSeq(rg[x], LAMBDA y : repr(y) # nodeRepr)
         IN  IF Len(newNodes) > 0
             THEN [rg EXCEPT ![x] = newNodes]
             ELSE [y \in DOMAIN rg \ {x} |-> rg[y]]
    ELSE rg

\* append(ks[:index], ks[index+1:]...)
Cut(ks, index) == SubSeq(ks, 1, index) \o SubSeq(ks, index + 2, Len(ks))

\* Pass i of the loop of Remove on st = [keys, ring].
removePass(st, nodeRepr, i) ==
    LET x == hash(Concat(nodeRepr, i))
        index == Search(st.keys, x, 0, Len(st.keys))
    IN  [keys |-> IF index < Len(st.keys) THEN Cut(st.keys, index) ELSE st.keys,
         ring |-> removeRingNode(st.ring, x, nodeRepr)]

RECURSIVE removeLoop(_, _, _, _)
\* The passes i = lo .. hi - 1 of the loop of Remove, in this order:
\* for i := 0; i < h.replicas; i++.  (The range is halved, and the first half
\* computed before the second, to keep the evaluation shallow.)
removeLoop(st, nodeRepr, lo, hi) ==
    IF hi <= lo THEN st
    ELSE IF hi = lo + 1 THEN removePass(st, nodeRepr, lo)
    ELSE LET mid == (lo + hi) \div 2
             half == removeLoop(st, nodeRepr, lo, mid)
         IN  IF Len(half.keys) >= 0 THEN removeLoop(half, nodeRepr, mid, hi) ELSE half

\* The body of Remove under h.lock.
removeLocked(node) ==
    IF repr(node) \notin nodes
    THEN UNCHANGED <<keys, ring, nodes>>
    ELSE LET after == removeLoop([keys |-> keys, ring |-> ring], repr(node), 0, replicas)
         IN  /\ keys' = after.keys
             /\ ring' = after.ring
             /\ nodes' = nodes \ {repr(node)}

\* Remove(node)
Remove(node) ==
    /\ hops < MaxOps
    /\ hops' = hops + 1
    /\ removeLocked(node)
    /\ hlast' = [op |-> "Remove", node |-> node, arg |-> 0, ok |-> TRUE]
    /\ UNCHANGED <<hashFunc, replicas, adding>>

\* AddWithReplicas(node, r) up to the return of its h.Remove(node).
AddWithReplicas(node, r) ==
    /\ hops < MaxOps
    /\ Len(adding) < MaxAdding
    /\ hops' = hops + 1
    /\ removeLocked(node)
    /\ adding' = Append(adding, [node |-> node, arg |-> r])
    /\ hlast' = NoCall
    /\ UNCHANGED <<hashFunc, replicas>>

\* ConsistentHash.Add(node); the name Add is RollingWindow.Add here.
AddNode(node) == AddWithReplicas(node, replicas)

\* AddWithWeight(node, weight)
AddWithWeight(node, weight) == AddWithReplicas(node, (replicas * weight) \div TopWeight)

\* The replica count AddWithReplicas goes on with.
truncated(r) == IF r > replicas THEN replicas ELSE r

\* The hashes the loop of AddWithReplicas appends for n passes.
newKeys(nodeRepr, n) == [i \in 1..(IF n > 0 THEN n ELSE 0) |-> hash(Concat(nodeRepr, i - 1))]

\* h.ring after the loop of AddWithReplicas.
ringWith(node, nk) ==
    LET added == {nk[i] : i \in 1..Len(nk)}
        times(x) == Cardinality({i \in 1..Len(nk) : nk[i] = x})
    IN  [x \in DOMAIN ring \cup added |->
            (IF x \in DOMAIN ring THEN ring[x] ELSE <<>>) \o [j \in 1..times(x) |-> node]]

\* sort.Slice(h.keys, less)
sorted(ks) == SortSeq(ks, LAMBDA a, b : a < b)

\* The locked section of the i-th AddWithReplicas call under way.
addLocked(i) ==
    /\ i \in 1..Len(adding)
    /\ LET node == adding[i].node
           nk == newKeys(repr(node), truncated(adding[i].arg))
       IN  /\ nodes' = nodes \cup {repr(node)}
           /\ keys' = sorted(keys \o nk)
           /\ ring' = ringWith(node, nk)
           /\ hlast' = [op |-> "AddWithReplicas", node |-> node, arg |-> adding[i].arg,
                        ok |-> TRUE]
    /\ adding' = SubSeq(adding, 1, i - 1) \o SubSeq(adding, i + 1, Len(adding))
    /\ UNCHANGED <<hashFunc, replicas, hops>>

\* What Get(v) returns: "panic" stands for the run-time panic of % 0.
getResult(v) ==
    IF Cardinality(DOMAIN ring) = 0
    THEN [op |-> "Get", node |-> NoCall.node, arg |-> v, ok |-> FALSE]
    ELSE IF Len(keys) = 0
    THEN [op |-> "panic", node |-> NoCall.node, arg |-> v, ok |-> FALSE]
    ELSE LET index == Search(keys, hash(repr(Node("int", v))), 0, Len(keys)) % Len(keys)
             x == keys[index + 1]
             found == IF x \in DOMAIN ring THEN ring[x] ELSE <<>>
         IN  IF Len(found) = 0
             THEN [op |-> "Get", node |-> NoCall.node, arg |-> v, ok |-> FALSE]
             ELSE IF Len(found) = 1
             THEN [op |-> "Get", node |-> found[1], arg |-> v, ok |-> TRUE]
             ELSE [op |-> "Get", node |-> found[(hash(innerRepr(v)) % Len(found)) + 1],
                   arg |-> v, ok |-> TRUE]

\* Get(v)
Get(v) ==
    /\ hlast' = getResult(v)
    /\ UNCHANGED <<hashFunc, replicas, keys, ring, nodes, adding, hops>>

(***************************************************************************)
(* timex and RollingWindow.  Time is counted in ticks of the clock; Add and *)
(* Reduce run under rw.lock, so each is one step.  Add reads the clock      *)
(* twice (in span and in updateOffset): the second reading may be later.    *)
(***************************************************************************)

\* Go's integer division and remainder truncate toward zero.
GoDiv(a, b) == IF a >= 0 THEN a \div b ELSE -((-a) \div b)

GoMod(a, b) == a - b * GoDiv(a, b)

\* new(Bucket)
EmptyBucket == [Sum |-> 0, Count |-> 0]

\* No Reduce has returned since the last Add or tick of the clock.
NoReduce == [valid |-> FALSE, at |-> 0, span |-> 0, idx |-> <<>>, sum |-> 0, count |-> 0]

\* timex.Since(d) read when the clock shows t
Since(t, d) == t - d

\* NewRollingWindow(sz, iv, opts...) called when the clock shows t; ign tells
\* whether IgnoreCurrentBucket() is among the options.
NewRollingWindow(t, sz, iv, ign) ==
    /\ sz >= 1
    /\ now = t
    /\ size = sz
    /\ interval = iv
    /\ ignoreCurrent = ign
    /\ offset = 0
    /\ lastTime = t
    /\ win = [i \in 0..(sz - 1) |-> EmptyBucket]
    /\ reduced = NoReduce
    /\ nadds = 0
    /\ epoch = t
    /\ born = [i \in 0..(sz - 1) |-> -1]
    /\ addedSum = 0
    /\ lastAddAt = t
    /\ lastAddV = 0
    /\ idleAdd = FALSE

\* No allow/doReq has returned since the last change of the window or clock.
NoVerdict == [op |-> "none", consulted |-> FALSE, rejected |-> FALSE, ret |-> "none",
              fallback |-> FALSE, req |-> "none"]

\* The fields of a breaker nobody has called yet.
InitBRIdle ==
    /\ fresh = 0
    /\ inreq = 0
    /\ verdict = NoVerdict
    /\ spent = 0

\* The window of a specification that does not use it.
InitRWIdle == NewRollingWindow(1, 1, 1, FALSE)

\* The ticks after construction that the clock is followed for.
Horizon == (MaxSize + 1) * IntervalTicks

\* The sharedGroup of a specification that does not use it.
InitSFIdle == InitSF

\* A window of some size, with or without IgnoreCurrentBucket, built at a
\* clock reading that is no multiple of the interval.
InitRW ==
    /\ InitSFIdle
    /\ InitBRIdle
    /\ InitCHIdle
    /\ \E sz \in 1..MaxSize, ign \in BOOLEAN :
          NewRollingWindow(IntervalTicks + 1, sz, IntervalTicks, ign)

\* RollingWindow.span, its clock read showing t.
span(t) ==
    LET off == GoDiv(Since(t, lastTime), interval)
    IN  IF 0 <= off /\ off < size THEN off ELSE size

\* Mutant of Expired: only span - 1 buckets are reset.
ExpiredShort(sp) == {(offset + i + 1) % size : i \in 0..(sp - 2)}

\* The buckets updateOffset resets for a given span.
Expired(sp) == {(offset + i + 1) % size : i \in 0..(sp - 1)}

\* Mutants of alignedTime: lastTime = timex.Now(), the boundary is lost.
alignedTimeNow(t) == t

\* The lastTime updateOffset computes from the clock reading t.
alignedTime(t) == t - GoMod(t - lastTime, interval)

\* Mutant of offsetAfter: the offset is not advanced.
offsetAfterStuck(t1) == offset

\* The offset after updateOffset, span's clock read showing t1.
offsetAfter(t1) == IF span(t1) <= 0 THEN offset ELSE (offset + span(t1)) % size

\* The lastTime after updateOffset; span reads t1, timex.Now() reads t2.
lastTimeAfter(t1, t2) == IF span(t1) <= 0 THEN lastTime ELSE alignedTime(t2)

\* The buckets after updateOffset.
bucketsAfter(t1) ==
    IF span(t1) <= 0 THEN win
    ELSE [i \in DOMAIN win |-> IF i \in Expired(span(t1)) THEN EmptyBucket ELSE win[i]]

\* The older updateOffset kept in rollingwindow.go: the buckets its two loops
\* reset for a span sp > 0, from start = offset + 1 up to steps and from 0 up
\* to remainder.
ExpiredOlder(sp) ==
    LET start == offset + 1
        remainder == IF start + sp > size THEN start + sp - size ELSE 0
        steps == IF start + sp > size THEN size ELSE start + sp
    IN  (start..(steps - 1)) \cup (0..(remainder - 1))

\* The older updateOffset: rw.offset, the last index its loops visited.
offsetOlder(sp) ==
    LET start == offset + 1
        remainder == IF start + sp > size THEN start + sp - size ELSE 0
        steps == IF start + sp > size THEN size ELSE start + sp
    IN  IF remainder > 0 THEN remainder - 1
        ELSE IF steps > start THEN steps - 1 ELSE offset

\* Bucket.add
BucketAdd(b, v) == [Sum |-> b.Sum + v, Count |-> b.Count + 1]

\* RollingWindow.Add(v): updateOffset, then win.add(rw.offset, v).
Add(v, t1, t2) ==
    LET o == offsetAfter(t1)
        lt == lastTimeAfter(t1, t2)
        bs == bucketsAfter(t1)
        at == o % size
    IN  /\ now = t1
        /\ now' = t2
        /\ offset' = o
        /\ lastTime' = lt
        /\ win' = [bs EXCEPT ![at] = BucketAdd(bs[at], v)]
        /\ born' = IF span(t1) <= 0 THEN [born EXCEPT ![at] = lt]
                    ELSE [i \in DOMAIN born |->
                            IF i = at THEN lt
                            ELSE IF i \in Expired(span(t1)) THEN -1 ELSE born[i]]
        /\ nadds' = nadds + 1
        /\ addedSum' = addedSum + v
        /\ idleAdd' = (t1 - lastAddAt >= size * interval)
        /\ lastAddAt' = t2
        /\ lastAddV' = v
        /\ reduced' = NoReduce
        /\ UNCHANGED <<size, interval, ignoreCurrent, epoch>>

\* Mutant of reduceCount: the expired buckets are not left out.
reduceCountAll(sp) == IF sp = 0 /\ ignoreCurrent THEN size - 1 ELSE size

\* Mutant of reduceCount: the current bucket is always left out.
reduceCountSkipCurrent(sp) == IF sp = 0 THEN size - 1 ELSE size - sp

\* Mutant of reduceCount: the ignore-current option is not honoured.
reduceCountNoIgnore(sp) == size - sp

\* Reduce: diff, the number of buckets passed to fn.
reduceCount(sp) == IF sp = 0 /\ ignoreCurrent THEN size - 1 ELSE size - sp

\* Reduce: the indexes of the buckets passed to fn, in order (window.reduce).
reduceIdx(sp) ==
    IF reduceCount(sp) > 0
    THEN [i \in 1..reduceCount(sp) |-> (((offset + sp + 1) % size) + (i - 1)) % size]
    ELSE <<>>

RECURSIVE SumOver(_, _, _)
\* The total of field f over the buckets a Reduce visits.
SumOver(idx, f, n) ==
    IF n = 0 THEN 0
    ELSE SumOver(idx, f, n - 1) + (IF f = "Sum" THEN win[idx[n]].Sum ELSE win[idx[n]].Count)

\* RollingWindow.Reduce(fn) with an fn that totals Sum and Count.
Reduce ==
    LET sp == span(now)
        idx == reduceIdx(sp)
    IN  /\ reduced' = [valid |-> TRUE, at |-> now, span |-> sp, idx |-> idx,
                       sum |-> SumOver(idx, "Sum", Len(idx)),
                       count |-> SumOver(idx, "Count", Len(idx))]
        /\ UNCHANGED <<now, size, interval, ignoreCurrent, offset, lastTime, win,
                       nadds, epoch, born, addedSum, lastAddAt, lastAddV, idleAdd>>

\* Time passes: the clock shows d ticks more.
Sleep(d) ==
    /\ now' = now + d
    /\ reduced' = NoReduce
    /\ UNCHANGED <<size, interval, ignoreCurrent, offset, lastTime, win,
                   nadds, epoch, born, addedSum, lastAddAt, lastAddV, idleAdd>>

\* One tick passes.
Tick ==
    /\ now < epoch + Horizon
    /\ Sleep(1)

(***************************************************************************)
(* googleBreaker.  accept reads the window in one Reduce and decides on the *)
(* numbers it got; req of doReq runs outside every lock, so doReq is two    *)
(* steps: the admission and the return of req.                              *)
(***************************************************************************)

\* bucketDuration := time.Duration(int64(window) / int64(buckets))
bucketDuration == window \div buckets

\* The values r.Float64() may give, in units of 1/ProbaGrain.
ProbaDraws == 0..(ProbaGrain - 1)

\* How req of doReq ends: err acceptable, err not acceptable, panic.
ReqOutcomes == {"ok", "bad", "panic"}

\* newGoogleBreaker called when the clock shows t.
newGoogleBreaker(t) ==
    /\ NewRollingWindow(t, buckets, bucketDuration, FALSE)
    /\ InitBRIdle

\* The breaker alone, built at clock reading 1.
InitBR == InitSFIdle /\ InitCHIdle /\ newGoogleBreaker(1)

\* history: accepts and total are reduced'.sum and reduced'.count.
history == Reduce

\* Mutant of dropNum: no protection term.
dropNumNoProtection(accepts, total) == kDen * total - kNum * accepts

\* dropRatio = dropNum / dropDen before math.Max(0, .):
\* (float64(total-protection) - k*float64(accepts)) / float64(total+1).
dropNum(accepts, total) == kDen * (total - protection) - kNum * accepts

dropDen(total) == kDen * (total + 1)

\* dropRatio <= 0 after math.Max(0, .)
NoDrop(accepts, total) == dropNum(accepts, total) <= 0

\* Proba.TrueOnProba(dropRatio) when r.Float64() gives r / ProbaGrain.
TrueOnProba(r, num, den) == r * den < num * ProbaGrain

\* accept returns ErrServiceUnavailable.
Unavailable(accepts, total, r) ==
    /\ ~NoDrop(accepts, total)
    /\ TrueOnProba(r, dropNum(accepts, total), dropDen(total))

\* accept: history, then the decision; the probability source is consulted, and
\* gives r, only when dropRatio > 0.
accept(op, fb, retOk, retErr) ==
    /\ history
    /\ LET accepts == reduced'.sum
           total == reduced'.count
       IN  \E r \in IF NoDrop(accepts, total) THEN {0} ELSE ProbaDraws :
             LET rej == Unavailable(accepts, total, r)
             IN  verdict' = [op |-> op,
                             consulted |-> ~NoDrop(accepts, total),
                             rejected |-> rej,
                             ret |-> IF rej THEN retErr ELSE retOk,
                             fallback |-> rej /\ fb,
                             req |-> "none"]

\* The calls admitted so far: their samples, and those still to record one.
Admitted == nadds + fresh + inreq

\* allow: a promise, or ErrServiceUnavailable.
allow ==
    /\ Admitted < MaxCalls
    /\ fresh + inreq < MaxPending
    /\ accept("allow", FALSE, "promise", "ErrServiceUnavailable")
    /\ fresh' = IF verdict'.rejected THEN fresh ELSE fresh + 1
    /\ UNCHANGED inreq

\* Mutant of doReq: req is called although accept returned an error.
doReqRunsAnyway(fb) ==
    /\ Admitted < MaxCalls
    /\ fresh + inreq < MaxPending
    /\ accept("doReq", fb, "req",
              IF fb THEN "fallback(ErrServiceUnavailable)" ELSE "ErrServiceUnavailable")
    /\ inreq' = inreq + 1
    /\ UNCHANGED fresh

\* doReq up to the call of req; on rejection it returns fallback(err) or err.
doReq(fb) ==
    /\ Admitted < MaxCalls
    /\ fresh + inreq < MaxPending
    /\ accept("doReq", fb, "req",
              IF fb THEN "fallback(ErrServiceUnavailable)" ELSE "ErrServiceUnavailable")
    /\ inreq' = IF verdict'.rejected THEN inreq ELSE inreq + 1
    /\ UNCHANGED fresh

\* markSuccess, the clock reads of Add showing now and now + d.
markSuccess(d) == Add(1, now, now + d)

\* markFailure
markFailure(d) == Add(0, now, now + d)

\* The clock readings the model follows: the first MaxTicks ticks after
\* construction and after an idle time of the length of the window.
InSight(t) == GoMod(t - epoch, window) <= MaxTicks /\ t <= epoch + window + MaxTicks

\* Mutant of doReqReturn: no deferred recover, a panic of req records nothing.
doReqReturnNoRecover(o, d) ==
    /\ inreq > 0
    /\ InSight(now + d)
    /\ IF o = "ok" THEN markSuccess(d)
       ELSE IF o = "bad" THEN markFailure(d)
       ELSE d = 0 /\ Sleep(0)
    /\ inreq' = inreq - 1
    /\ verdict' = [op |-> "req", consulted |-> FALSE, rejected |-> FALSE,
                   ret |-> IF o = "panic" THEN "panic" ELSE "err",
                   fallback |-> FALSE, req |-> o]
    /\ UNCHANGED fresh

\* req of an admitted doReq ends: markSuccess when acceptable(err), markFailure
\* otherwise and in the deferred function when req panics; doReq returns err,
\* or the panic goes on to the caller.
doReqReturn(o, d) ==
    /\ inreq > 0
    /\ InSight(now + d)
    /\ IF o = "ok" THEN markSuccess(d) ELSE markFailure(d)
    /\ inreq' = inreq - 1
    /\ verdict' = [op |-> "req", consulted |-> FALSE, rejected |-> FALSE,
                   ret |-> IF o = "panic" THEN "panic" ELSE "err",
                   fallback |-> FALSE, req |-> o]
    /\ UNCHANGED fresh

\* The holder of a promise resolves it.
Resolve ==
    /\ fresh > 0
    /\ fresh' = fresh - 1
    /\ verdict' = NoVerdict
    /\ UNCHANGED inreq

\* googlePromise.Accept
Accept(d) ==
    /\ InSight(now + d)
    /\ Resolve
    /\ markSuccess(d)

\* googlePromise.Reject
Reject(d) ==
    /\ InSight(now + d)
    /\ Resolve
    /\ markFailure(d)

\* The holder keeps the promise it has just resolved.
Keep == spent' = spent + 1

\* The holder of a spent promise uses it again: googlePromise holds only the
\* breaker, nothing tells a spent promise from a fresh one.
ResolveAgain ==
    /\ spent > 0
    /\ nadds < MaxCalls
    /\ verdict' = NoVerdict
    /\ UNCHANGED <<fresh, inreq, spent>>

\* googlePromise.Accept on a spent promise
AcceptAgain(d) ==
    /\ InSight(now + d)
    /\ ResolveAgain
    /\ markSuccess(d)

\* googlePromise.Reject on a spent promise
RejectAgain(d) ==
    /\ InSight(now + d)
    /\ ResolveAgain
    /\ markFailure(d)

\* One tick passes.
Elapse ==
    /\ InSight(now + 1)
    /\ Sleep(1)
    /\ verdict' = NoVerdict
    /\ UNCHANGED <<fresh, inreq>>

\* Nothing is recorded for the length of the window.
Idle ==
    /\ InSight(now + window)
    /\ Sleep(window)
    /\ verdict' = NoVerdict
    /\ UNCHANGED <<fresh, inreq>>

(***************************************************************************)
(* Specifications.                                                         *)
(***************************************************************************)

NextSF ==
    \/ \E k \in Keys : Do(k) /\ UNCHANGED <<rwvars, brvars, prvars, chvars>>
    \/ \E k \in Keys : DoEx(k) /\ UNCHANGED <<rwvars, brvars, prvars, chvars>>
    \/ \E r \in Recs : Wait(r) /\ UNCHANGED <<rwvars, brvars, prvars, chvars>>
    \/ \E r \in Recs : CallFn(r) /\ UNCHANGED <<rwvars, brvars, prvars, chvars>>
    \/ \E r \in Recs : FnReturn(r) /\ UNCHANGED <<rwvars, brvars, prvars, chvars>>
    \/ \E r \in Recs : FnPanic(r) /\ UNCHANGED <<rwvars, brvars, prvars, chvars>>
    \/ \E r \in Recs : makeCallDefer(r) /\ UNCHANGED <<rwvars, brvars, prvars, chvars>>

\* The sharedGroup alone: the window and the breaker are not used.
InitGroup == InitSF /\ InitRWIdle /\ InitBRIdle /\ InitCHIdle

SpecSF == InitGroup /\ [][NextSF]_vars

\* The scheduler runs every goroutine that can take a step of the group's own
\* code; fn is the caller's code and is not required to terminate.
SpecSFLive ==
    /\ InitGroup
    /\ [][NextSF]_vars
    /\ \A r \in Recs : WF_sfvars(makeCallDefer(r)) /\ WF_sfvars(Wait(r))

NextRW ==
    \/ \E v \in Vals, d \in Skews :
          /\ nadds < MaxAdds
          /\ now + d <= epoch + Horizon
          /\ Add(v, now, now + d)
          /\ UNCHANGED <<sfvars, brvars, prvars, chvars>>
    \/ Reduce /\ UNCHANGED <<sfvars, brvars, prvars, chvars>>
    \/ Tick /\ UNCHANGED <<sfvars, brvars, prvars, chvars>>

SpecRW == InitRW /\ [][NextRW]_vars

\* The breaker with holders that call Accept or Reject once on every promise
\* and then drop it.
NextBR ==
    \/ allow /\ UNCHANGED <<sfvars, prvars, chvars>>
    \/ \E fb \in BOOLEAN : doReq(fb) /\ UNCHANGED <<sfvars, prvars, chvars>>
    \/ \E o \in ReqOutcomes, d \in Skews : doReqReturn(o, d) /\ UNCHANGED <<sfvars, prvars, chvars>>
    \/ \E d \in Skews : Accept(d) /\ UNCHANGED <<sfvars, prvars, chvars>>
    \/ \E d \in Skews : Reject(d) /\ UNCHANGED <<sfvars, prvars, chvars>>
    \/ Elapse /\ UNCHANGED <<sfvars, prvars, chvars>>
    \/ Idle /\ UNCHANGED <<sfvars, prvars, chvars>>

SpecBR == InitBR /\ [][NextBR]_vars

\* allow and its promises alone, with holders that keep a promise after its
\* first Accept or Reject and may call either method on it again.
NextPR ==
    \/ allow /\ UNCHANGED <<sfvars, prvars, chvars>>
    \/ \E d \in Skews : Accept(d) /\ Keep /\ UNCHANGED <<sfvars, chvars>>
    \/ \E d \in Skews : Reject(d) /\ Keep /\ UNCHANGED <<sfvars, chvars>>
    \/ \E d \in Skews : AcceptAgain(d) /\ UNCHANGED <<sfvars, chvars>>
    \/ \E d \in Skews : RejectAgain(d) /\ UNCHANGED <<sfvars, chvars>>
    \/ Elapse /\ UNCHANGED <<sfvars, prvars, chvars>>

SpecPR == InitBR /\ [][NextPR]_vars

\* A ring built by NewCustomConsistentHash with one of the hash functions.
InitCH ==
    /\ InitSFIdle
    /\ InitRWIdle
    /\ InitBRIdle
    /\ \E fn \in HashFuncs : NewCustomConsistentHash(0, fn)

\* The ring called from several goroutines.
NextCH ==
    \/ \E n \in NodeSet : AddNode(n) /\ UNCHANGED <<sfvars, rwvars, brvars, prvars>>
    \/ \E n \in NodeSet, r \in ReplicaArgs :
          AddWithReplicas(n, r) /\ UNCHANGED <<sfvars, rwvars, brvars, prvars>>
    \/ \E n \in NodeSet, w \in WeightArgs :
          AddWithWeight(n, w) /\ UNCHANGED <<sfvars, rwvars, brvars, prvars>>
    \/ \E i \in 1..MaxAdding : addLocked(i) /\ UNCHANGED <<sfvars, rwvars, brvars, prvars>>
    \/ \E n \in NodeSet : Remove(n) /\ UNCHANGED <<sfvars, rwvars, brvars, prvars>>
    \/ \E v \in GetKeys : Get(v) /\ UNCHANGED <<sfvars, rwvars, brvars, prvars>>

SpecCH == InitCH /\ [][NextCH]_vars

\* The ring called from one goroutine: a call starts when no other is under way.
NextCHSerial ==
    \/ adding = <<>> /\ \E n \in NodeSet :
          AddNode(n) /\ UNCHANGED <<sfvars, rwvars, brvars, prvars>>
    \/ adding = <<>> /\ \E n \in NodeSet, r \in ReplicaArgs :
          AddWithReplicas(n, r) /\ UNCHANGED <<sfvars, rwvars, brvars, prvars>>
    \/ adding = <<>> /\ \E n \in NodeSet, w \in WeightArgs :
          AddWithWeight(n, w) /\ UNCHANGED <<sfvars, rwvars, brvars, prvars>>
    \/ addLocked(1) /\ UNCHANGED <<sfvars, rwvars, brvars, prvars>>
    \/ adding = <<>> /\ \E n \in NodeSet :
          Remove(n) /\ UNCHANGED <<sfvars, rwvars, brvars, prvars>>
    \/ adding = <<>> /\ \E v \in GetKeys :
          Get(v) /\ UNCHANGED <<sfvars, rwvars, brvars, prvars>>

SpecCHSerial == InitCH /\ [][NextCHSerial]_vars

(***************************************************************************)
(* Claims about sharedGroup.                                               *)
(***************************************************************************)

\* The outcomes of record r that are returns (not panics).
Returns(r) == {o \in got[r] : o.kind = "return"}

\* All callers of record r have left Do/DoEx.
Over(r) == stage[r] = "gone" /\ nwait[r] = 0

\* C1: single-flight.  For every key at most one fn is running at any time;
\* fn runs at most once for a record, however many callers share it; all the
\* callers of a record that return get the same value and error; fresh is
\* true only for the caller that ran fn and, once that caller has returned,
\* for exactly one caller of the record.
C1_SingleFlight ==
    /\ \A k \in Keys : Cardinality({r \in Recs : rkey[r] = k /\ stage[r] = "fn"}) <= 1
    /\ \A k \in Keys : Cardinality({r \in Recs : rkey[r] = k /\ InFlight(k)
                                               /\ stage[r] \in {"makeCall", "fn", "defer"}}) <= 1
    /\ \A r \in Recs :
        /\ execs[r] <= 1
        /\ execs[r] = 1 <=> stage[r] \in {"fn", "defer", "done", "gone"}
        /\ \A o1, o2 \in Returns(r) : o1.val = o2.val /\ o1.err = o2.err
        /\ \A o \in got[r] : o.fresh => o.ran
        /\ Cardinality({o \in got[r] : o.ran}) <= 1
        /\ nfresh[r] <= 1
        /\ (stage[r] = "gone" /\ ~panicked[r]) => nfresh[r] = 1

\* C1 witness: fn ran once for a record whose callers have all returned, the
\* one that ran fn with fresh = true and one that waited with fresh = false
\* and the same value.
C1_Witness ==
    \E r \in Recs :
        /\ Over(r) /\ execs[r] = 1 /\ nfresh[r] = 1
        /\ \E o1, o2 \in Returns(r) : o1.fresh /\ ~o2.fresh /\ o1.val = r /\ o2.val = r

\* C2: the key leaves the index before the record's completion is signalled:
\* a record that is in the index has wg = 1 and no wg.Done() yet, and no caller
\* ever attached to a record whose completion was already signalled.
C2_RemoveBeforeSignal ==
    /\ \A k \in Keys : calls[k] # Nil => wg[calls[k]] = 1 /\ signals[calls[k]] = 0
    /\ \A r \in Recs : signals[r] > 0 => \A k \in Keys : calls[k] # r
    /\ late = {}

\* C2 witness: a record is out of the index and not yet signalled, a waiter is
\* blocked on it, and a later arrival for the same key has started a new record.
C2_Witness ==
    \E r \in Recs :
        /\ stage[r] = "done" /\ wg[r] = 1 /\ nwait[r] > 0
        /\ calls[rkey[r]] \notin {Nil, r}

\* fn of record r has terminated, by a return or by a panic.
Terminated(r) == stage[r] \in {"defer", "done", "gone"}

\* C3: once fn has terminated (return or panic) the key is removed, the
\* completion is signalled exactly once, and every waiter of the record returns.
C3_WaitersReturn ==
    /\ [](\A r \in Recs : /\ signals[r] <= 1
                          /\ wg[r] >= 0
                          /\ stage[r] = "gone" => (signals[r] = 1 /\ wg[r] = 0)
                          /\ stage[r] \in {"done", "gone"} => \A k \in Keys : calls[k] # r)
    /\ \A r \in Recs : (Terminated(r) /\ nwait[r] > 0) ~> (stage[r] = "gone" /\ nwait[r] = 0)
    /\ \A r \in Recs : Terminated(r) ~> (stage[r] = "gone" /\ calls[rkey[r]] # r)

\* C3 witness: fn has panicked, the deferred function is running and two
\* callers are blocked on the record.
C3_Witness ==
    \E r \in Recs : panicked[r] /\ stage[r] = "defer" /\ nwait[r] >= 2

\* C4 as claimed: all callers that share an execution see one outcome, the
\* caller that ran fn included: the same kind (return or panic), value and error.
C4_SameOutcome ==
    \A r \in Recs : \A o1, o2 \in got[r] :
        o1.kind = o2.kind /\ o1.val = o2.val /\ o1.err = o2.err

\* C5: nothing is cached.  The index holds a record only while the call that
\* created it is in flight, and no caller ever attached to a record when no
\* call for its key was in flight: such a caller runs fn itself.
C5_NoCache ==
    /\ \A k \in Keys : calls[k] # Nil =>
          /\ rkey[calls[k]] = k
          /\ stage[calls[k]] \in {"makeCall", "fn", "defer"}
    /\ \A k \in Keys : ~InFlight(k) => calls[k] = Nil
    /\ stray = {}

\* C5 witness: a call for a key is over and a second call for the same key,
\* made afterwards, runs fn again.
C5_Witness ==
    \E r1, r2 \in Recs :
        /\ r1 < r2 /\ rkey[r1] = rkey[r2]
        /\ Over(r1) /\ execs[r1] = 1
        /\ stage[r2] = "fn" /\ execs[r2] = 1

(***************************************************************************)
(* Claims about RollingWindow.                                             *)
(***************************************************************************)

RECURSIVE Total(_, _)
\* The total of field f over the buckets in set S.
Total(S, f) ==
    IF S = {} THEN 0
    ELSE LET i == CHOOSE j \in S : TRUE
         IN  (IF f = "Sum" THEN win[i].Sum ELSE win[i].Count) + Total(S \ {i}, f)

\* The set of bucket indexes the last Reduce visited.
Visited == {reduced.idx[i] : i \in 1..Len(reduced.idx)}

\* C7 as claimed: Reduce never visits a bucket holding a value that was added
\* while the current bucket started at s once the clock shows s + size*interval
\* or more; a Reduce that comes size intervals or more after the last Add
\* reports sum 0 and count 0; and after one further Add(v) a Reduce that
\* includes the current bucket reports sum v and count 1.
C7_NoAgedOutSample ==
    reduced.valid =>
        /\ \A i \in Visited : born[i] = -1 \/ reduced.at < born[i] + size * interval
        /\ reduced.at - lastAddAt >= size * interval => reduced.sum = 0 /\ reduced.count = 0
        /\ (idleAdd /\ ~ignoreCurrent /\ reduced.span < size) =>
              reduced.sum = lastAddV /\ reduced.count = 1

\* The two special cases of C7 alone (idle window, one Add after the idle time).
C7_IdleCases ==
    reduced.valid =>
        /\ reduced.at - lastAddAt >= size * interval => reduced.sum = 0 /\ reduced.count = 0
        /\ (idleAdd /\ ~ignoreCurrent /\ reduced.span < size) =>
              reduced.sum = lastAddV /\ reduced.count = 1

\* C8: without ignore-current, a Reduce that comes before the first interval
\* boundary after construction sees buckets whose sums total the sum of all
\* values added and whose counts total the number of Add calls.
C8_CompleteWithinInterval ==
    (reduced.valid /\ ~ignoreCurrent /\ reduced.at < epoch + interval) =>
        reduced.sum = addedSum /\ reduced.count = nadds

\* C8 witness: such a Reduce after two Add calls on a window of several buckets.
C8_Witness ==
    /\ reduced.valid /\ ~ignoreCurrent /\ reduced.at < epoch + interval
    /\ nadds >= 2 /\ size >= 2 /\ reduced.sum >= 2

\* C9: with ignore-current, a Reduce with span = 0 visits the size - 1 buckets
\* other than the one at offset, oldest first, so the values of the current
\* bucket are left out; with span > 0 it visits size - span buckets from
\* (offset + span + 1) mod size on, the last one being the bucket at offset.
\* No bucket is visited twice.
C9_IgnoreCurrent ==
    (reduced.valid /\ ignoreCurrent) =>
        LET n == Len(reduced.idx) IN
        /\ Cardinality(Visited) = n
        /\ reduced.span = 0 =>
              /\ n = size - 1
              /\ Visited = (0..(size - 1)) \ {offset}
              /\ \A i \in 1..n : reduced.idx[i] = (offset + i) % size
              /\ reduced.sum = Total((0..(size - 1)) \ {offset}, "Sum")
              /\ reduced.count = Total((0..(size - 1)) \ {offset}, "Count")
        /\ reduced.span > 0 =>
              /\ n = size - reduced.span
              /\ \A i \in 1..n : reduced.idx[i] = (offset + reduced.span + i) % size
              /\ n > 0 => reduced.idx[n] = offset

\* C9 witness: a Reduce with span = 0 on an ignore-current window whose current
\* bucket and one older bucket hold values.
C9_Witness ==
    /\ reduced.valid /\ ignoreCurrent /\ reduced.span = 0 /\ size >= 3
    /\ win[offset].Count > 0
    /\ reduced.count > 0

\* C9 witness for span > 0: some buckets are skipped and the walk ends at offset.
C9_WitnessSpan ==
    /\ reduced.valid /\ ignoreCurrent /\ reduced.span > 0
    /\ Len(reduced.idx) > 0 /\ reduced.count > 0

(***************************************************************************)
(* Claims about googleBreaker.                                             *)
(***************************************************************************)

\* The last step was an allow or a doReq admission decision.
Decided == verdict.op \in {"allow", "doReq"} /\ reduced.valid

\* C10: allow/doReq do not reject, and do not consult the probability source,
\* when total - 5 - 1.5*accepts <= 0 for the numbers the window reports; they
\* never reject while fewer than 6 calls are recorded (in the buckets the
\* window reports, in all its buckets, or ever), and never when every call
\* recorded is a success.
C10_Admission ==
    Decided =>
        /\ 2 * (reduced.count - 5) - 3 * reduced.sum <= 0 =>
              ~verdict.rejected /\ ~verdict.consulted
        /\ reduced.count < 6 => ~verdict.rejected
        /\ Total(0..(size - 1), "Count") < 6 => ~verdict.rejected
        /\ nadds < 6 => ~verdict.rejected
        /\ reduced.sum = reduced.count => ~verdict.rejected
        /\ addedSum = nadds => ~verdict.rejected
        /\ verdict.rejected => verdict.ret \in {"ErrServiceUnavailable",
                                                "fallback(ErrServiceUnavailable)"}

\* C10 witness: six successes are in the window and the seventh call is admitted
\* without a draw.
C10_Witness ==
    /\ Decided /\ reduced.count >= 6 /\ reduced.sum = reduced.count
    /\ ~verdict.rejected /\ ~verdict.consulted

\* A rejection happens: six failures are in the window.
C10_Rejects == Decided /\ verdict.rejected /\ reduced.count >= 6

\* C11 as claimed: a promise returned by allow contributes exactly one sample to
\* the window, however often Accept and Reject are called on it: the samples
\* in a breaker used through allow alone are as many as the promises resolved.
C11_SingleResolution == nadds = spent

\* C12: an admitted doReq starts req once and, when req ends, adds exactly one
\* sample to the window: 1 when req returns and acceptable(err) holds, 0 when
\* acceptable(err) does not hold, 0 followed by the panic when req panics;
\* without a panic doReq returns req's err.
C12_DoReqAccounting ==
    [][/\ (verdict'.op = "doReq" /\ ~verdict'.rejected) =>
             inreq' = inreq + 1 /\ nadds' = nadds /\ win' = win
       /\ verdict'.op = "req" =>
             /\ inreq > 0 /\ inreq' = inreq - 1
             /\ nadds' = nadds + 1
             /\ addedSum' = addedSum + (IF verdict'.req = "ok" THEN 1 ELSE 0)
             /\ lastAddV' = (IF verdict'.req = "ok" THEN 1 ELSE 0)
             /\ win'[offset'].Count >= 1
             /\ win'[offset'].Sum >= lastAddV'
             /\ verdict'.ret = (IF verdict'.req = "panic" THEN "panic" ELSE "err")
       /\ inreq' # inreq => verdict'.op \in {"doReq", "req"}]_vars

\* C12 witness: req has panicked, a failure is recorded and the panic goes on.
C12_Witness ==
    /\ verdict.op = "req" /\ verdict.req = "panic" /\ verdict.ret = "panic"
    /\ lastAddV = 0 /\ nadds >= 1 /\ win[offset].Count >= 1

\* C13: when accept denies a doReq, req is not started and the window is left
\* as it was (no sample); doReq returns what fallback makes of
\* ErrServiceUnavailable when a fallback was passed, ErrServiceUnavailable
\* otherwise.
C13_DoReqDenied ==
    [][(verdict'.op = "doReq" /\ verdict'.rejected) =>
          /\ inreq' = inreq /\ fresh' = fresh
          /\ nadds' = nadds /\ addedSum' = addedSum
          /\ win' = win /\ offset' = offset /\ lastTime' = lastTime
          /\ verdict'.req = "none"
          /\ verdict'.ret = (IF verdict'.fallback THEN "fallback(ErrServiceUnavailable)"
                                                 ELSE "ErrServiceUnavailable")]_vars

\* C13 witness: a doReq with a fallback has been denied on six recorded failures.
C13_Witness ==
    /\ verdict.op = "doReq" /\ verdict.rejected /\ verdict.fallback
    /\ verdict.ret = "fallback(ErrServiceUnavailable)"
    /\ reduced.valid /\ reduced.count >= 6 /\ inreq = 0

\* A doReq without fallback is denied as well.
C13_WitnessNoFallback ==
    /\ verdict.op = "doReq" /\ verdict.rejected /\ ~verdict.fallback
    /\ verdict.ret = "ErrServiceUnavailable"

(***************************************************************************)
(* Claims about ConsistentHash.                                            *)
(***************************************************************************)

\* keys is in ascending order.
KeysSorted == \A i \in 1..(Len(keys) - 1) : keys[i] <= keys[i + 1]

\* Every hash in keys is a key of ring.
KeysInRing == \A i \in 1..Len(keys) : keys[i] \in DOMAIN ring

\* Every node stored in ring has its string in nodes.
RingInNodes == \A x \in DOMAIN ring : \A j \in 1..Len(ring[x]) : repr(ring[x][j]) \in nodes

\* C14 as claimed: whenever h.lock is free, keys is sorted ascending, every
\* hash in keys is a key of ring and every node stored in ring has its string
\* in nodes, whatever calls of Add, AddWithReplicas, AddWithWeight and Remove
\* were made, from one goroutine or from several.
C14_RingInvariant == KeysSorted /\ KeysInRing /\ RingInNodes

\* Get has returned without a panic.
GetReturned == hlast.op = "Get"

\* C15 as claimed: Get(k) ends without failure; the node it returns is present
\* in the ring; it returns none exactly when no node is present.
C15_GetTotalSound ==
    /\ hlast.op # "panic"
    /\ GetReturned /\ hlast.ok => repr(hlast.node) \in nodes
    /\ GetReturned => (~hlast.ok <=> nodes = {})

\* Remove(n) has just returned.
Removed == hlast.op = "Remove"

\* The copies of hash x in keys.
Copies(x) == Cardinality({i \in 1..Len(keys) : keys[i] = x})

\* The entries in ring of the nodes whose string is nodeRepr.
Entries(nodeRepr) ==
    {<<x, j>> \in UNION {{x} \X (1..Len(ring[x])) : x \in DOMAIN ring} :
        repr(ring[x][j]) = nodeRepr}

\* keys holds no position beyond those of the nodes stored in ring.
NoStrayKey ==
    \A i \in 1..Len(keys) :
        keys[i] \in DOMAIN ring /\ Copies(keys[i]) <= Len(ring[keys[i]])

\* C16 as claimed: when Remove(n) has returned, n is not in nodes, no ring[h]
\* contains n and keys holds no position contributed by n; and Get returns no
\* node that is not in nodes (so not n, until n is added again).
C16_RemoveComplete ==
    /\ Removed => /\ repr(hlast.node) \notin nodes
                  /\ Entries(repr(hlast.node)) = {}
                  /\ NoStrayKey
    /\ GetReturned /\ hlast.ok => Entries(repr(hlast.node)) # {} /\ repr(hlast.node) \in nodes

\* AddWithReplicas has just returned (called directly or through Add or
\* AddWithWeight).
Added == hlast.op = "AddWithReplicas"

Min(a, b) == IF a < b THEN a ELSE b

Max(a, b) == IF a > b THEN a ELSE b

\* C17 as claimed: when AddWithReplicas(node, r) has returned, the node owns
\* exactly min(max(r, 1), h.replicas) positions.
C17_ReplicaCount ==
    Added => Cardinality(Entries(repr(hlast.node))) = Min(Max(hlast.arg, 1), replicas)

\* The count the code gives: min(r, h.replicas), none when r <= 0.
C17_CodeCount ==
    Added => Cardinality(Entries(repr(hlast.node))) = Max(Min(hlast.arg, replicas), 0)

\* The numbers of positions one call of Add, AddWithReplicas or AddWithWeight
\* gives a node, for the arguments passed here.
PositionCounts ==
    {Max(Min(r, replicas), 0) :
        r \in ReplicaArgs \cup {replicas}
               \cup {(replicas * w) \div TopWeight : w \in WeightArgs}}

\* C18 as claimed: when every Add and AddWithReplicas call has returned, a node
\* holds the positions of exactly one of the calls made on it, never those of
\* two calls together.
C18_AddOverwrites ==
    adding = <<>> =>
        \A nodeRepr \in nodes : Cardinality(Entries(nodeRepr)) \in PositionCounts

(***************************************************************************)
(* Claims about the rotation of the rolling window.                        *)
(***************************************************************************)

\* The span of the claim: min(N, floor((now - lastTime) / interval)).
ClaimedSpan == Min(size, (now - lastTime) \div interval)

\* The positions (offset + 1) mod N .. (offset + sp) mod N.
ClaimedReset(sp) == {(offset + i) % size : i \in 1..sp}

\* C19: on every Add, with span = min(N, floor((now - lastTime) / interval)),
\* exactly the span buckets at (offset + 1) mod N .. (offset + span) mod N are
\* reset to (0, 0), every other bucket is unchanged and offset becomes
\* (offset + span) mod N, before the value is accumulated in the bucket at the
\* new offset; with span = 0 offset, lastTime and all buckets are unchanged
\* before the accumulation.  offset stays in [0, N).  The older updateOffset
\* of the file resets the same buckets and sets the same offset.
C19_Rotation ==
    [][/\ offset \in 0..(size - 1) /\ offset' \in 0..(size - 1)
       /\ nadds' = nadds + 1 =>
             LET sp == ClaimedSpan
                 rotated == [i \in 0..(size - 1) |->
                               IF i \in ClaimedReset(sp) THEN EmptyBucket ELSE win[i]]
             IN  /\ Cardinality(ClaimedReset(sp)) = sp
                 /\ offset' = (offset + sp) % size
                 /\ sp = 0 => lastTime' = lastTime /\ offset' = offset /\ rotated = win
                 /\ win' = [rotated EXCEPT ![offset'] = BucketAdd(rotated[offset'], lastAddV')]
                 /\ sp > 0 => ExpiredOlder(sp) = ClaimedReset(sp) /\ offsetOlder(sp) = offset']_vars

\* C19 witness: a window of three buckets has been rotated by two buckets
\* twice, the second time past the end of the bucket array.
C19_Witness ==
    /\ size = 3 /\ nadds = 3 /\ offset = 1
    /\ lastTime = epoch + 4 * interval
    /\ win[0] = EmptyBucket /\ win[2].Count = 1 /\ win[1].Count = 1

\* C20 as claimed: for each j in 0..N-1 the bucket at position (offset - j)
\* mod N holds only values added during the time slice that starts at
\* lastTime - j*interval (born is the start of the slice a bucket's values
\* were added in, -1 for a bucket without values), also when the clock moves
\* between the two clock reads of one Add.
C20_BucketTime ==
    \A j \in 0..(size - 1) :
        LET i == (offset - j + size) % size
        IN  born[i] # -1 => born[i] = lastTime - j * interval

\* The part of C20 in parentheses: offset and lastTime have advanced by the
\* same number of intervals as long as the buckets were never all reset.
C20_SameAdvance ==
    lastTime - epoch < size * interval => offset = (lastTime - epoch) \div interval

(***************************************************************************)
(* Claims about the recovery of googleBreaker.                             *)
(***************************************************************************)

\* Nothing has been recorded for 40 bucket intervals or more.
LongIdle == now - lastAddAt >= buckets * bucketDuration

\* C21: when no outcome has been recorded for 40 consecutive bucket intervals,
\* the next allow/doReq is admitted unconditionally, whatever the window held
\* before: the window reports nothing and the probability source is not
\* consulted.  A rejection rests on the numbers of the window alone.
C21_Recovery ==
    Decided =>
        /\ LongIdle => /\ reduced.count = 0 /\ reduced.sum = 0
                       /\ ~verdict.rejected /\ ~verdict.consulted
        /\ verdict.rejected => dropNum(reduced.sum, reduced.count) > 0

\* C21 witness: six failures were recorded, which allows rejections; after an
\* idle time of the length of the window a call is admitted without a draw.
C21_Witness ==
    /\ Decided /\ LongIdle
    /\ nadds >= 6 /\ addedSum = 0
    /\ ~verdict.rejected /\ ~verdict.consulted

(***************************************************************************)
(* Claims about the frame of ConsistentHash.Remove.                        *)
(***************************************************************************)

\* The copies of hash x in the sequence ks.
CopiesIn(ks, x) == Cardinality({i \in 1..Len(ks) : ks[i] = x})

\* The times the map rg holds, under hash x, a node whose string is nodeRepr.
HeldAt(rg, x, nodeRepr) ==
    IF x \in DOMAIN rg
    THEN Cardinality({j \in 1..Len(rg[x]) : repr(rg[x][j]) = nodeRepr})
    ELSE 0

\* C22 as claimed: a Remove(n), called directly or at the start of
\* AddWithReplicas, leaves the positions of every other node as they were:
\* the entries of every node m # n in ring are the same after the call, and
\* keys loses the hashes of n only, one copy for each position n held.
C22_RemoveFrame ==
    [][hops' = hops + 1 =>
          LET n == IF hlast'.op = "Remove" THEN hlast'.node
                   ELSE adding'[Len(adding')].node
          IN  /\ \A m \in nodes \ {repr(n)} : \A x \in DOMAIN ring :
                    HeldAt(ring', x, m) = HeldAt(ring, x, m)
              /\ \A x \in {keys[i] : i \in 1..Len(keys)} :
                    CopiesIn(keys', x) = CopiesIn(keys, x) - HeldAt(ring, x, repr(n))]_vars

\* The part of C22 about ring alone.
C22_RingFrame ==
    [][hops' = hops + 1 =>
          LET n == IF hlast'.op = "Remove" THEN hlast'.node
                   ELSE adding'[Len(adding')].node
          IN  \A m \in nodes \ {repr(n)} : \A x \in DOMAIN ring :
                 HeldAt(ring', x, m) = HeldAt(ring, x, m)]_vars

====
